---- MODULE Spec2Model ----
(***************************************************************************)
(* Loan gathering (librustc_borrowck/borrowck/gather_loans/mod.rs).        *)
(*                                                                         *)
(* The model follows one run of gather_loans_in_fn: the expression-use     *)
(* visitor walks a function body and calls the Delegate callbacks of       *)
(* GatherLoanCtxt, one per event; afterwards the deferred move errors are  *)
(* reported and (all_loans, move_data) is returned.                        *)
(*                                                                         *)
(* Specifications:                                                         *)
(*   Spec           one run of gather_loans_in_fn                          *)
(*   SpecLongPaths  one run over a single borrow of a long loan path       *)
(*   SpecStatic     gather_loans_in_static_initializer                     *)
(*   SpecRerun      two runs over the same body, side by side              *)
(*   SpecPar        two functions analysed with interleaved events         *)
(*                                                                         *)
(* Not modelled: Span contents, LoanCause and restricted_paths, which the  *)
(* code only copies into the Loan record or hands to a diagnostic and      *)
(* never branches on.  A loan's span is the ordinal of the event that      *)
(* created it.                                                             *)
(***************************************************************************)
EXTENDS Integers, Sequences, FiniteSets, TLC

----------------------------------------------------------------------------
(* Bounds of the model *)

MaxEvents == 2

NumScopes == 3

NumVars == 2

MaxPathLen == 0

MaxLinks == 2

MaxExprs == 5

----------------------------------------------------------------------------
(* Scope table (region_maps): scopes form a tree, scope 1 is the function  *)
(* body; scope s has parent s \div 2.                                      *)

Scopes == 1..NumScopes

Parent(s) == s \div 2

RECURSIVE is_subscope_of(_, _)
is_subscope_of(subscope, superscope) ==
    IF subscope = superscope THEN TRUE
    ELSE IF Parent(subscope) = 0 THEN FALSE
    ELSE is_subscope_of(Parent(subscope), superscope)

----------------------------------------------------------------------------
(* ty::Region *)

ReEmpty == [tag |-> "ReEmpty", scope |-> 0]

ReStatic == [tag |-> "ReStatic", scope |-> 0]

ReLateBound == [tag |-> "ReLateBound", scope |-> 0]

ReEarlyBound == [tag |-> "ReEarlyBound", scope |-> 0]

ReInfer == [tag |-> "ReInfer", scope |-> 0]

ReScope(s) == [tag |-> "ReScope", scope |-> s]

ReFree(s) == [tag |-> "ReFree", scope |-> s]

Regions ==
    {ReEmpty, ReStatic, ReLateBound, ReEarlyBound, ReInfer}
      \cup {ReScope(s) : s \in Scopes} \cup {ReFree(s) : s \in Scopes}

(* ty::BorrowKind *)
BorrowKinds == {"ImmBorrow", "UniqueImmBorrow", "MutBorrow"}

(* mc::MutabilityCategory *)
MutabilityCategories == {"McImmutable", "McDeclared", "McInherited"}

is_mutable(mutbl) == mutbl # "McImmutable"

(* the answer of cmt.freely_aliasable(tcx): None or Some(cause) *)
AliasableStatics == {"AliasableStatic(InteriorSafe)", "AliasableStatic(InteriorUnsafe)"}

Aliasabilities == {"None", "AliasableStaticMut", "AliasableOther"} \cup AliasableStatics

----------------------------------------------------------------------------
(* LoanPath: a root (LpVar or LpUpvar) and the LpDowncast / LpExtend links *)
(* wrapped around it, outermost first.                                     *)

Vars == 1..NumVars

Links == {"LpDowncast", "LpExtend(McInherited)", "LpExtend(McDeclared)", "LpExtend(McImmutable)"}

LinkSeqs == UNION {[1..n -> Links] : n \in 0..MaxPathLen}

LoanPaths == [root : {"LpVar", "LpUpvar"}, id : Vars, links : LinkSeqs]

(* loan paths with up to MaxLinks links *)
LongLinkSeqs == UNION {[1..n -> Links] : n \in 0..MaxLinks}

LongLoanPaths == [root : {"LpVar", "LpUpvar"}, id : Vars, links : LongLinkSeqs]

NoPath == [root |-> "none", id |-> 0, links |-> <<>>]

(* the scope in which a variable is declared, and the body of the closure  *)
(* that captures an upvar                                                  *)
var_scope(local_id) == ((local_id - 1) % NumScopes) + 1

closure_scope == NumScopes

(* LoanPath::kill_scope: the scope of the variable that roots the path *)
lp_kill_scope(lp) == IF lp.root = "LpVar" THEN var_scope(lp.id) ELSE closure_scope

----------------------------------------------------------------------------
(* The state of one run of gather_loans_in_fn *)

VARIABLES
    pc,                    \* where gather_loans_in_fn is: "walk", "reported", "returned", "aborted"
    all_loans,             \* GatherLoanCtxt.all_loans
    move_data,             \* GatherLoanCtxt.move_data: the calls that reached the move table
    move_error_collector,  \* GatherLoanCtxt.move_error_collector: number of deferred move errors
    diags,                 \* the session's diagnostics, in order of emission
    used_mut_nodes,        \* tcx.used_mut_nodes
    failed,                \* "none", or the internal failure that ended the run
    nevents,               \* number of events the visitor has dispatched
    last,                  \* the callback that has just returned, with the answers its
                           \* handler received; op "none" once the visitor has walked on
    before,                \* the context and the session as that callback found them
    flushes,               \* number of calls of report_potential_errors so far
    static_walk,           \* the walk of gather_loans_in_static_initializer: the
                           \* initializer, the expressions still to visit and those
                           \* visited; NotRunning in a run of gather_loans_in_fn
    reruns,                \* two runs of gather_loans_in_fn over one body, side by
                           \* side; NotRunning when a single run is followed
    par                    \* the analyses of two functions with interleaved events,
                           \* the flags and diagnostics they share, and each
                           \* analysis run alone; NotRunning otherwise

vars == <<pc, all_loans, move_data, move_error_collector, diags, used_mut_nodes,
          failed, nevents, last, before, flushes, static_walk, reruns, par>>

(* the state that belongs to other entry points than gather_loans_in_fn *)
elsewhere == <<static_walk, reruns, par>>

NotRunning == "not running"

(* the context and the session as they are now *)
Snapshot ==
    [all_loans |-> all_loans, move_data |-> move_data,
     move_error_collector |-> move_error_collector, diags |-> diags,
     used_mut_nodes |-> used_mut_nodes]

----------------------------------------------------------------------------
(* The validity checks *)

(* lifetime::guarantee_lifetime: the answer is the collaborator's; on Err  *)
(* it has reported its error                                               *)
guarantee_lifetime(sink, answer) ==
    IF answer = "Err"
    THEN [res |-> "Err", diags |-> Append(sink, "lifetime")]
    ELSE [res |-> "Ok", diags |-> sink]

(* variant: mutable loans of immutable data are let through *)
check_mutability_lenient(sink, mutbl, req_kind) == [res |-> "Ok", diags |-> sink]

check_mutability(sink, mutbl, req_kind) ==
    IF req_kind \in {"UniqueImmBorrow", "ImmBorrow"}
    THEN [res |-> "Ok", diags |-> sink]
    ELSE IF ~is_mutable(mutbl)
         THEN [res |-> "Err", diags |-> Append(sink, "err_mutbl")]
         ELSE [res |-> "Ok", diags |-> sink]

(* variant: a mutable borrow of a static mut is checked like any other *)
check_aliasability_static_mut_checked(sink, aliasable, req_kind) ==
    IF aliasable = "None"
    THEN [res |-> "Ok", diags |-> sink]
    ELSE IF aliasable \in AliasableStatics /\ req_kind = "ImmBorrow"
    THEN [res |-> "Ok", diags |-> sink]
    ELSE IF req_kind \in {"UniqueImmBorrow", "MutBorrow"}
    THEN [res |-> "Err", diags |-> Append(sink, "aliasability_violation")]
    ELSE [res |-> "Ok", diags |-> sink]

(* variant: a static item may be borrowed with any kind *)
check_aliasability_statics_ok(sink, aliasable, req_kind) ==
    IF aliasable \in {"None", "AliasableStaticMut"} \cup AliasableStatics
    THEN [res |-> "Ok", diags |-> sink]
    ELSE IF req_kind \in {"UniqueImmBorrow", "MutBorrow"}
    THEN [res |-> "Err", diags |-> Append(sink, "aliasability_violation")]
    ELSE [res |-> "Ok", diags |-> sink]

check_aliasability(sink, aliasable, req_kind) ==
    IF aliasable = "None"
    THEN [res |-> "Ok", diags |-> sink]
    ELSE IF aliasable \in AliasableStatics /\ req_kind = "ImmBorrow"
    THEN [res |-> "Ok", diags |-> sink]
    ELSE IF aliasable = "AliasableStaticMut"
    THEN [res |-> "Ok", diags |-> sink]
    ELSE IF req_kind \in {"UniqueImmBorrow", "MutBorrow"}
    THEN [res |-> "Err", diags |-> Append(sink, "aliasability_violation")]
    ELSE [res |-> "Ok", diags |-> sink]

----------------------------------------------------------------------------
(* Scope arithmetic and mutation marking *)

RECURSIVE mark_links(_, _, _)
mark_links(links, root_id, used) ==
    IF links = <<>> THEN used \cup {root_id}
    ELSE IF Head(links) = "LpExtend(McImmutable)" THEN used
    ELSE mark_links(Tail(links), root_id, used)

(* variant: the root is flagged whatever lies on the path *)
mark_loan_path_as_mutated_any_path(loan_path, used) == used \cup {loan_path.id}

(* variant: a flag that is already set is cleared *)
mark_loan_path_as_mutated_toggling(loan_path, used) ==
    LET root == mark_links(loan_path.links, loan_path.id, {})
    IN  IF root \subseteq used THEN used \ root ELSE used \cup root

(* variant: the flag set is overwritten with the root instead of inserted into *)
mark_loan_path_as_mutated_overwriting(loan_path, used) ==
    mark_links(loan_path.links, loan_path.id, {})

mark_loan_path_as_mutated(loan_path, used) ==
    mark_links(loan_path.links, loan_path.id, used)

(* variant: the loan always starts at the borrow *)
compute_gen_scope_at_borrow(borrow_scope, loan_scope) == borrow_scope

compute_gen_scope(borrow_scope, loan_scope) ==
    IF is_subscope_of(borrow_scope, loan_scope) THEN borrow_scope ELSE loan_scope

(* variant: the assertion is left out *)
compute_kill_scope_unasserted(loan_scope, lp) ==
    IF is_subscope_of(lp_kill_scope(lp), loan_scope) THEN lp_kill_scope(lp)
    ELSE loan_scope

(* variant: the two branches are swapped, the loan lasts as long as the    *)
(* larger of the two scopes                                                *)
compute_kill_scope_outer(loan_scope, lp) ==
    IF is_subscope_of(lp_kill_scope(lp), loan_scope) THEN loan_scope
    ELSE IF is_subscope_of(loan_scope, lp_kill_scope(lp)) THEN lp_kill_scope(lp)
    ELSE 0

(* 0 stands for the failed assertion *)
compute_kill_scope(loan_scope, lp) ==
    LET lexical_scope == lp_kill_scope(lp) IN
    IF is_subscope_of(lexical_scope, loan_scope) THEN lexical_scope
    ELSE IF is_subscope_of(loan_scope, lexical_scope) THEN loan_scope
    ELSE 0

----------------------------------------------------------------------------
(* guarantee_valid.  s is the part of the state the call can touch, b the  *)
(* borrow event with the collaborators' answers.  The result carries the   *)
(* new state and `calls`, the checks and computations the call went        *)
(* through, in order.                                                      *)

Ret(s, calls) ==
    [all_loans |-> s.all_loans, diags |-> s.diags,
     used_mut_nodes |-> s.used_mut_nodes, failed |-> s.failed, calls |-> calls]

RetDiags(s, sink, calls) == [Ret(s, calls) EXCEPT !.diags = sink]

RetFailed(s, failure, calls) == [Ret(s, calls) EXCEPT !.failed = failure]

(* variant: indices are counted from one *)
new_loan_index_from_one(s, b, gen_scope, kill_scope) ==
    [index |-> Len(s.all_loans) + 1,
     loan_path |-> b.restr.loan_path,
     kind |-> b.req_kind,
     gen_scope |-> gen_scope,
     kill_scope |-> kill_scope,
     span |-> b.span]

(* the Loan record *)
new_loan(s, b, gen_scope, kill_scope) ==
    [index |-> Len(s.all_loans),
     loan_path |-> b.restr.loan_path,
     kind |-> b.req_kind,
     gen_scope |-> gen_scope,
     kill_scope |-> kill_scope,
     span |-> b.span]

(* from the resolved loan scope to the push of the loan *)
create_loan(s, b, loan_scope, calls) ==
    LET borrow_scope == b.borrow_id
        gen_scope == compute_gen_scope(borrow_scope, loan_scope)
        kill_scope == compute_kill_scope(loan_scope, b.restr.loan_path)
        calls2 == calls \o <<"compute_gen_scope", "compute_kill_scope">>
        marked == IF b.req_kind = "MutBorrow"
                  THEN mark_loan_path_as_mutated(b.restr.loan_path, s.used_mut_nodes)
                  ELSE s.used_mut_nodes
        calls3 == IF b.req_kind = "MutBorrow"
                  THEN Append(calls2, "mark_loan_path_as_mutated") ELSE calls2
        loan == new_loan(s, b, gen_scope, kill_scope)
    IN  IF kill_scope = 0 THEN RetFailed(s, "assert", calls2)
        ELSE [all_loans |-> Append(s.all_loans, loan),
              diags |-> s.diags,
              used_mut_nodes |-> marked,
              failed |-> s.failed,
              calls |-> Append(calls3, "push")]

(* variant: an inferred region is returned on like the static region *)
loan_scope_of_infer_returns(loan_region) ==
    IF loan_region.tag \in {"ReScope", "ReFree"} THEN loan_region.scope
    ELSE IF loan_region.tag \in {"ReStatic", "ReInfer"} THEN 0
    ELSE -1

(* variant: a static region is resolved to the scope of the function body *)
loan_scope_of_static_as_body(loan_region) ==
    IF loan_region.tag \in {"ReScope", "ReFree"} THEN loan_region.scope
    ELSE IF loan_region.tag = "ReStatic" THEN 1
    ELSE -1

(* variant: a static region is rejected like the regions that must not appear *)
loan_scope_of_static_is_bug(loan_region) ==
    IF loan_region.tag \in {"ReScope", "ReFree"} THEN loan_region.scope
    ELSE -1

(* the scope a region resolves to; 0: the static region, the call returns; *)
(* -1: a region that must not appear here, span_bug                        *)
loan_scope_of(loan_region) ==
    IF loan_region.tag \in {"ReScope", "ReFree"} THEN loan_region.scope
    ELSE IF loan_region.tag = "ReStatic" THEN 0
    ELSE -1

(* from compute_restrictions to the end of the call *)
restrict(s, b, calls) ==
    LET c4 == Append(calls, "compute_restrictions")
        loan_scope == loan_scope_of(b.loan_region)
    IN  IF b.restr.tag = "Safe" THEN Ret(s, c4)
        ELSE IF loan_scope = 0 THEN Ret(s, c4)
        ELSE IF loan_scope = -1 THEN RetFailed(s, "span_bug", c4)
        ELSE create_loan(s, b, loan_scope, c4)

(* variant: a lifetime error does not end the call *)
run_checks_past_lifetime(s, b) ==
    LET lt == guarantee_lifetime(s.diags, b.lifetime)
        s1 == [s EXCEPT !.diags = lt.diags]
        c1 == <<"guarantee_lifetime">>
        mu == check_mutability(s1.diags, b.mutbl, b.req_kind)
        c2 == Append(c1, "check_mutability")
    IN  IF mu.res = "Err" THEN RetDiags(s1, mu.diags, c2)
    ELSE
    LET al == check_aliasability(s1.diags, b.aliasable, b.req_kind)
        c3 == Append(c2, "check_aliasability")
    IN  IF al.res = "Err" THEN RetDiags(s1, al.diags, c3)
    ELSE restrict(s1, b, c3)

(* variant: an aliasability error does not end the call *)
run_checks_past_aliasability(s, b) ==
    LET lt == guarantee_lifetime(s.diags, b.lifetime)
        c1 == <<"guarantee_lifetime">>
    IN  IF lt.res = "Err" THEN RetDiags(s, lt.diags, c1)
    ELSE
    LET mu == check_mutability(s.diags, b.mutbl, b.req_kind)
        c2 == Append(c1, "check_mutability")
    IN  IF mu.res = "Err" THEN RetDiags(s, mu.diags, c2)
    ELSE
    LET al == check_aliasability(s.diags, b.aliasable, b.req_kind)
        c3 == Append(c2, "check_aliasability")
    IN  restrict([s EXCEPT !.diags = al.diags], b, c3)

(* the lifetime, mutability and aliasability checks, each returning on Err *)
run_checks(s, b) ==
    LET lt == guarantee_lifetime(s.diags, b.lifetime)
        c1 == <<"guarantee_lifetime">>
    IN  IF lt.res = "Err" THEN RetDiags(s, lt.diags, c1)
    ELSE
    LET mu == check_mutability(s.diags, b.mutbl, b.req_kind)
        c2 == Append(c1, "check_mutability")
    IN  IF mu.res = "Err" THEN RetDiags(s, mu.diags, c2)
    ELSE
    LET al == check_aliasability(s.diags, b.aliasable, b.req_kind)
        c3 == Append(c2, "check_aliasability")
    IN  IF al.res = "Err" THEN RetDiags(s, al.diags, c3)
    ELSE restrict(s, b, c3)

(* variant: once the session holds a diagnostic, borrows are not examined *)
guarantee_valid_quiet_after_errors(s, b) ==
    IF b.loan_region = ReEmpty \/ s.diags # <<>> THEN Ret(s, <<>>)
    ELSE run_checks(s, b)

(* variant: the empty region is not returned on *)
guarantee_valid_unguarded(s, b) == run_checks(s, b)

guarantee_valid(s, b) ==
    IF b.loan_region = ReEmpty THEN Ret(s, <<>>)
    ELSE run_checks(s, b)

----------------------------------------------------------------------------
(* The move gatherer (gather_moves) and the deferred move errors *)

(* a move out of a place that may not be moved from is kept as a deferred  *)
(* error; any other move is entered in the move table                      *)
gather_move(md, mec, handler, illegal) ==
    IF illegal
    THEN [move_data |-> md, move_error_collector |-> mec + 1]
    ELSE [move_data |-> Append(md, handler), move_error_collector |-> mec]

gather_move_from_expr(md, mec, illegal) == gather_move(md, mec, "gather_move_from_expr", illegal)

gather_move_from_pat(md, mec, illegal) == gather_move(md, mec, "gather_move_from_pat", illegal)

gather_match_variant(md) == Append(md, "gather_match_variant")

gather_assignment(md) == Append(md, "gather_assignment")

gather_decl(md) == Append(md, "gather_decl")

----------------------------------------------------------------------------
(* The events the visitor can dispatch *)

ConsumeModes == {"Copy", "Move"}

Categories == {"cat_downcast", "cat_other"}

NotCalled == "NotCalled"

Safe == [tag |-> "Safe", loan_path |-> NoPath]

SafeIf(lp) == [tag |-> "SafeIf", loan_path |-> lp]

Restrictions == {Safe} \cup {SafeIf(lp) : lp \in LoanPaths}

NoRestriction == [tag |-> NotCalled, loan_path |-> NoPath]

(* guarantee_lifetime is called unless the region is empty *)
LifetimeAnswers(loan_region) ==
    IF loan_region = ReEmpty THEN {NotCalled} ELSE {"Ok", "Err"}

(* compute_restrictions is called once the three checks have succeeded *)
RestrictionAnswers(loan_region, lifetime, mutbl, aliasable, req_kind) ==
    IF /\ loan_region # ReEmpty
       /\ lifetime = "Ok"
       /\ check_mutability(<<>>, mutbl, req_kind).res = "Ok"
       /\ check_aliasability(<<>>, aliasable, req_kind).res = "Ok"
    THEN Restrictions
    ELSE {NoRestriction}

BorrowEvents ==
    UNION { UNION { UNION {
        [borrow_id : Scopes, mutbl : {m}, aliasable : {a}, req_kind : {k},
         loan_region : {r}, lifetime : {lt},
         restr : RestrictionAnswers(r, lt, m, a, k)]
        : lt \in LifetimeAnswers(r) }
        : r \in Regions }
        : <<m, a, k>> \in MutabilityCategories \X Aliasabilities \X BorrowKinds }

----------------------------------------------------------------------------
(* Initial state: the GatherLoanCtxt gather_loans_in_fn builds *)

Init ==
    /\ pc = "walk"
    /\ all_loans = <<>>
    /\ move_data = <<>>
    /\ move_error_collector = 0
    /\ diags = <<>>
    /\ used_mut_nodes = {}
    /\ failed = "none"
    /\ nevents = 0
    /\ last = [op |-> "none"]
    /\ before = [all_loans |-> <<>>, move_data |-> <<>>, move_error_collector |-> 0,
                 diags |-> <<>>, used_mut_nodes |-> {}]
    /\ flushes = 0
    /\ static_walk = NotRunning
    /\ reruns = NotRunning
    /\ par = NotRunning

(* the visitor is between two callbacks and the body has events left *)
Dispatching == pc = "walk" /\ last.op = "none" /\ nevents < MaxEvents

----------------------------------------------------------------------------
(* Delegate callbacks *)

consume ==
    /\ Dispatching
    /\ \E mode \in ConsumeModes, illegal \in BOOLEAN :
         /\ mode = "Copy" => ~illegal
         /\ LET g == gather_move_from_expr(move_data, move_error_collector, illegal) IN
            /\ move_data' = IF mode = "Move" THEN g.move_data ELSE move_data
            /\ move_error_collector' =
                   IF mode = "Move" THEN g.move_error_collector ELSE move_error_collector
         /\ last' = [op |-> "consume", mode |-> mode, illegal |-> illegal]
    /\ nevents' = nevents + 1
    /\ before' = Snapshot
    /\ UNCHANGED <<flushes, elsewhere>>
    /\ UNCHANGED <<pc, all_loans, diags, used_mut_nodes, failed>>

matched_pat ==
    /\ Dispatching
    /\ \E cat \in Categories :
         /\ move_data' = IF cat = "cat_downcast" THEN gather_match_variant(move_data)
                         ELSE move_data
         /\ last' = [op |-> "matched_pat", cat |-> cat]
    /\ nevents' = nevents + 1
    /\ before' = Snapshot
    /\ UNCHANGED <<flushes, elsewhere>>
    /\ UNCHANGED <<pc, all_loans, move_error_collector, diags, used_mut_nodes, failed>>

(* variant: a pattern binding by copy is gathered as a move *)
consume_pat_copy_gathered ==
    /\ Dispatching
    /\ \E mode \in ConsumeModes, illegal \in BOOLEAN :
         /\ mode = "Copy" => ~illegal
         /\ LET g == gather_move_from_pat(move_data, move_error_collector, illegal) IN
            /\ move_data' = g.move_data
            /\ move_error_collector' = g.move_error_collector
         /\ last' = [op |-> "consume_pat", mode |-> mode, illegal |-> illegal]
    /\ nevents' = nevents + 1
    /\ before' = Snapshot
    /\ UNCHANGED <<flushes, elsewhere>>
    /\ UNCHANGED <<pc, all_loans, diags, used_mut_nodes, failed>>

consume_pat ==
    /\ Dispatching
    /\ \E mode \in ConsumeModes, illegal \in BOOLEAN :
         /\ mode = "Copy" => ~illegal
         /\ LET g == gather_move_from_pat(move_data, move_error_collector, illegal) IN
            /\ move_data' = IF mode = "Copy" THEN move_data ELSE g.move_data
            /\ move_error_collector' =
                   IF mode = "Copy" THEN move_error_collector ELSE g.move_error_collector
         /\ last' = [op |-> "consume_pat", mode |-> mode, illegal |-> illegal]
    /\ nevents' = nevents + 1
    /\ before' = Snapshot
    /\ UNCHANGED <<flushes, elsewhere>>
    /\ UNCHANGED <<pc, all_loans, diags, used_mut_nodes, failed>>

(* the borrow callback on the event ev *)
borrow_of(ev) ==
    LET b == [borrow_id |-> ev.borrow_id, mutbl |-> ev.mutbl,
              aliasable |-> ev.aliasable, req_kind |-> ev.req_kind,
              loan_region |-> ev.loan_region, lifetime |-> ev.lifetime,
              restr |-> ev.restr, span |-> nevents + 1]
        r == guarantee_valid([all_loans |-> all_loans, diags |-> diags,
                              used_mut_nodes |-> used_mut_nodes,
                              failed |-> failed], b)
    IN  /\ all_loans' = r.all_loans
        /\ diags' = r.diags
        /\ used_mut_nodes' = r.used_mut_nodes
        /\ failed' = r.failed
        /\ pc' = IF r.failed = "none" THEN pc ELSE "aborted"
        /\ last' = [op |-> "borrow", ev |-> b, calls |-> r.calls]
        /\ nevents' = nevents + 1
        /\ before' = Snapshot
        /\ UNCHANGED <<flushes, elsewhere>>
        /\ UNCHANGED <<move_data, move_error_collector>>

borrow ==
    /\ Dispatching
    /\ \E ev \in BorrowEvents : borrow_of(ev)

(* variant: an assignment flags the first variable as used mutably *)
mutate_marking_mutated ==
    /\ Dispatching
    /\ \E opt_loan_path \in {"Some", "None"} :
         /\ move_data' = IF opt_loan_path = "Some" THEN gather_assignment(move_data)
                         ELSE move_data
         /\ used_mut_nodes' = IF opt_loan_path = "Some" THEN used_mut_nodes \cup {1}
                              ELSE used_mut_nodes
         /\ last' = [op |-> "mutate", opt_loan_path |-> opt_loan_path]
    /\ nevents' = nevents + 1
    /\ before' = Snapshot
    /\ UNCHANGED <<flushes, elsewhere>>
    /\ UNCHANGED <<pc, all_loans, move_error_collector, diags, failed>>

mutate ==
    /\ Dispatching
    /\ \E opt_loan_path \in {"Some", "None"} :
         /\ move_data' = IF opt_loan_path = "Some" THEN gather_assignment(move_data)
                         ELSE move_data
         /\ last' = [op |-> "mutate", opt_loan_path |-> opt_loan_path]
    /\ nevents' = nevents + 1
    /\ before' = Snapshot
    /\ UNCHANGED <<flushes, elsewhere>>
    /\ UNCHANGED <<pc, all_loans, move_error_collector, diags, used_mut_nodes, failed>>

decl_without_init ==
    /\ Dispatching
    /\ move_data' = gather_decl(move_data)
    /\ last' = [op |-> "decl_without_init"]
    /\ nevents' = nevents + 1
    /\ before' = Snapshot
    /\ UNCHANGED <<flushes, elsewhere>>
    /\ UNCHANGED <<pc, all_loans, move_error_collector, diags, used_mut_nodes, failed>>

----------------------------------------------------------------------------
(* The visitor: after a callback returns it walks on to the next           *)
(* expression; when the body is exhausted walk_fn returns.                 *)

walk_on ==
    /\ pc = "walk"
    /\ last.op # "none"
    /\ last' = [op |-> "none"]
    /\ before' = Snapshot
    /\ UNCHANGED <<flushes, elsewhere>>
    /\ UNCHANGED <<pc, all_loans, move_data, move_error_collector, diags,
                   used_mut_nodes, failed, nevents>>

(* variant: the deferred errors are reported while the walk is still going on *)
report_potential_errors_midway ==
    /\ pc = "walk"
    /\ last.op = "none"
    /\ diags' = IF move_error_collector > 0 THEN Append(diags, "move_errors") ELSE diags
    /\ last' = [op |-> "report_potential_errors"]
    /\ before' = Snapshot
    /\ flushes' = flushes + 1
    /\ UNCHANGED elsewhere
    /\ UNCHANGED <<pc, all_loans, move_data, move_error_collector, used_mut_nodes, failed,
                   nevents>>

report_potential_errors ==
    /\ pc = "walk"
    /\ last.op = "none"
    /\ diags' = IF move_error_collector > 0 THEN Append(diags, "move_errors") ELSE diags
    /\ pc' = "reported"
    /\ last' = [op |-> "report_potential_errors"]
    /\ before' = Snapshot
    /\ flushes' = flushes + 1
    /\ UNCHANGED elsewhere
    /\ UNCHANGED <<all_loans, move_data, move_error_collector, used_mut_nodes, failed,
                   nevents>>

return ==
    /\ pc = "reported"
    /\ pc' = "returned"
    /\ last' = [op |-> "return"]
    /\ before' = Snapshot
    /\ UNCHANGED <<flushes, elsewhere>>
    /\ UNCHANGED <<all_loans, move_data, move_error_collector, diags, used_mut_nodes,
                   failed, nevents>>

Next ==
    \/ consume
    \/ matched_pat
    \/ consume_pat
    \/ borrow
    \/ mutate
    \/ decl_without_init
    \/ walk_on
    \/ report_potential_errors
    \/ return

Spec == Init /\ [][Next]_vars

----------------------------------------------------------------------------
(* A function body with a single borrow expression, of a place whose loan  *)
(* path may have links.  The used-mutably flags are the type context's:    *)
(* the functions analysed earlier have left theirs.                        *)

LongPathBorrowEvents ==
    BorrowEvents \cup
    { [ev EXCEPT !.restr = SafeIf(lp)] :
        ev \in {e \in BorrowEvents : e.restr.tag = "SafeIf"}, lp \in LongLoanPaths }

InitLongPaths ==
    /\ pc = "walk"
    /\ all_loans = <<>>
    /\ move_data = <<>>
    /\ move_error_collector = 0
    /\ diags = <<>>
    /\ used_mut_nodes \in SUBSET Vars
    /\ failed = "none"
    /\ nevents = 0
    /\ last = [op |-> "none"]
    /\ before = [all_loans |-> <<>>, move_data |-> <<>>, move_error_collector |-> 0,
                 diags |-> <<>>, used_mut_nodes |-> used_mut_nodes]
    /\ flushes = 0
    /\ static_walk = NotRunning
    /\ reruns = NotRunning
    /\ par = NotRunning

borrow_long_path ==
    /\ pc = "walk" /\ last.op = "none" /\ nevents = 0
    /\ \E ev \in LongPathBorrowEvents : borrow_of(ev)

NextLongPaths ==
    \/ borrow_long_path
    \/ walk_on
    \/ report_potential_errors
    \/ return

SpecLongPaths == InitLongPaths /\ [][NextLongPaths]_vars

----------------------------------------------------------------------------
(* gather_loans_in_static_initializer: StaticInitializerCtxt walks the     *)
(* expression of a static initializer.                                     *)
(*                                                                         *)
(* An initializer is a tree of up to MaxExprs expressions: expression 1 is *)
(* the initializer itself and parent[e] < e is the expression that e is a  *)
(* direct sub-expression of.  An ExprAddrOf has one sub-expression, its    *)
(* base, and carries its mutability and what freely_aliasable answers for  *)
(* the base.                                                               *)

Mutabilities == {"MutMutable", "MutImmutable"}

ExprAddrOfs == [tag : {"ExprAddrOf"}, mutbl : Mutabilities, aliasable : Aliasabilities]

ExprOther == [tag |-> "ExprOther", mutbl |-> "none", aliasable |-> "none"]

ParentSeqs(n) ==
    {p \in [1..n -> 0..(n - 1)] : p[1] = 0 /\ \A e \in 2..n : p[e] >= 1 /\ p[e] < e}

(* the direct sub-expressions of e, in source order *)
SubExprs(parent, e) == {c \in 1..Len(parent) : parent[c] = e}

RECURSIVE SetToSeq(_)
SetToSeq(S) ==
    IF S = {} THEN <<>>
    ELSE LET m == CHOOSE x \in S : \A y \in S : x <= y
         IN  <<m>> \o SetToSeq(S \ {m})

NodesAt(parent, e) ==
    IF Cardinality(SubExprs(parent, e)) = 1 THEN ExprAddrOfs \cup {ExprOther}
    ELSE {ExprOther}

RECURSIVE Labelings(_, _)
Labelings(parent, n) ==
    IF n = 0 THEN {<<>>}
    ELSE {Append(l, x) : l \in Labelings(parent, n - 1), x \in NodesAt(parent, n)}

(* ty::BorrowKind::from_mutbl *)
from_mutbl(mutbl) == IF mutbl = "MutMutable" THEN "MutBorrow" ELSE "ImmBorrow"

(* sicx.visit_expr(expr) on an initializer; there is no GatherLoanCtxt *)
InitStatic ==
    /\ \E n \in 1..MaxExprs : \E p \in ParentSeqs(n) : \E l \in Labelings(p, n) :
         static_walk = [expr |-> [parent |-> p, node |-> l], todo |-> <<1>>,
                        visited |-> {}]
    /\ pc = "static"
    /\ all_loans = <<>>
    /\ move_data = <<>>
    /\ move_error_collector = 0
    /\ diags = <<>>
    /\ used_mut_nodes = {}
    /\ failed = "none"
    /\ nevents = 0
    /\ last = [op |-> "none"]
    /\ before = [all_loans |-> <<>>, move_data |-> <<>>, move_error_collector |-> 0,
                 diags |-> <<>>, used_mut_nodes |-> {}]
    /\ flushes = 0
    /\ reruns = NotRunning
    /\ par = NotRunning

(* variant: the walk goes on into an expression that failed the check *)
visit_expr_walking_on ==
    /\ pc = "static"
    /\ static_walk.todo # <<>>
    /\ LET ex == Head(static_walk.todo)
           node == static_walk.expr.node[ex]
           checked == IF node.tag = "ExprAddrOf"
                      THEN check_aliasability(diags, node.aliasable, from_mutbl(node.mutbl))
                      ELSE [res |-> "Ok", diags |-> diags]
           walk_expr == SetToSeq(SubExprs(static_walk.expr.parent, ex))
       IN  /\ diags' = checked.diags
           /\ static_walk' =
                 [static_walk EXCEPT
                    !.visited = @ \cup {ex},
                    !.todo = walk_expr \o Tail(@)]
    /\ UNCHANGED <<pc, all_loans, move_data, move_error_collector, used_mut_nodes,
                   failed, nevents, last, before, flushes, reruns, par>>

(* StaticInitializerCtxt::visit_expr on the next expression of the walk;   *)
(* walk_expr has visit_expr called on each direct sub-expression           *)
visit_expr ==
    /\ pc = "static"
    /\ static_walk.todo # <<>>
    /\ LET ex == Head(static_walk.todo)
           node == static_walk.expr.node[ex]
           checked == IF node.tag = "ExprAddrOf"
                      THEN check_aliasability(diags, node.aliasable, from_mutbl(node.mutbl))
                      ELSE [res |-> "Ok", diags |-> diags]
           walk_expr == SetToSeq(SubExprs(static_walk.expr.parent, ex))
       IN  /\ diags' = checked.diags
           /\ static_walk' =
                 [static_walk EXCEPT
                    !.visited = @ \cup {ex},
                    !.todo = IF checked.res = "Err" THEN Tail(@)
                             ELSE walk_expr \o Tail(@)]
    /\ UNCHANGED <<pc, all_loans, move_data, move_error_collector, used_mut_nodes,
                   failed, nevents, last, before, flushes, reruns, par>>

NextStatic == visit_expr

SpecStatic == InitStatic /\ [][NextStatic]_vars

----------------------------------------------------------------------------
(* A run of gather_loans_in_fn as a value: its GatherLoanCtxt together     *)
(* with the diagnostics and the used-mutably flags it writes to.           *)

(* the variables that follow the single run of Spec *)
fn_run == <<pc, all_loans, move_data, move_error_collector, diags, used_mut_nodes,
            failed, nevents, last, before, flushes>>

(* gather_loans_in_fn has built its context; the session holds the         *)
(* diagnostics `sink` and the type context the flags `used`                *)
new_run(sink, used) ==
    [pc |-> "walk", all_loans |-> <<>>, move_data |-> <<>>, move_error_collector |-> 0,
     diags |-> sink, used_mut_nodes |-> used, failed |-> "none", nevents |-> 0]

ConsumeEvents ==
    {e \in [op : {"consume"}, mode : ConsumeModes, illegal : BOOLEAN] :
        e.mode = "Copy" => ~e.illegal}

MatchedPatEvents == [op : {"matched_pat"}, cat : Categories]

ConsumePatEvents ==
    {e \in [op : {"consume_pat"}, mode : ConsumeModes, illegal : BOOLEAN] :
        e.mode = "Copy" => ~e.illegal}

MutateEvents == [op : {"mutate"}, opt_loan_path : {"Some", "None"}]

DeclEvents == {[op |-> "decl_without_init"]}

BorrowCalls == {[op |-> "borrow", ev |-> ev] : ev \in BorrowEvents}

(* the Delegate callback for event e, on the run `run` *)
delegate(run, e) ==
    LET n == run.nevents + 1 IN
    CASE e.op = "consume" ->
           LET g == gather_move_from_expr(run.move_data, run.move_error_collector,
                                          e.illegal)
           IN  IF e.mode = "Move"
               THEN [run EXCEPT !.move_data = g.move_data,
                                !.move_error_collector = g.move_error_collector,
                                !.nevents = n]
               ELSE [run EXCEPT !.nevents = n]
      [] e.op = "matched_pat" ->
           IF e.cat = "cat_downcast"
           THEN [run EXCEPT !.move_data = gather_match_variant(@), !.nevents = n]
           ELSE [run EXCEPT !.nevents = n]
      [] e.op = "consume_pat" ->
           LET g == gather_move_from_pat(run.move_data, run.move_error_collector,
                                         e.illegal)
           IN  IF e.mode = "Copy"
               THEN [run EXCEPT !.nevents = n]
               ELSE [run EXCEPT !.move_data = g.move_data,
                                !.move_error_collector = g.move_error_collector,
                                !.nevents = n]
      [] e.op = "borrow" ->
           LET b == [borrow_id |-> e.ev.borrow_id, mutbl |-> e.ev.mutbl,
                     aliasable |-> e.ev.aliasable, req_kind |-> e.ev.req_kind,
                     loan_region |-> e.ev.loan_region, lifetime |-> e.ev.lifetime,
                     restr |-> e.ev.restr, span |-> n]
               r == guarantee_valid([all_loans |-> run.all_loans, diags |-> run.diags,
                                     used_mut_nodes |-> run.used_mut_nodes,
                                     failed |-> run.failed], b)
           IN  [run EXCEPT !.all_loans = r.all_loans,
                           !.diags = r.diags,
                           !.used_mut_nodes = r.used_mut_nodes,
                           !.failed = r.failed,
                           !.pc = IF r.failed = "none" THEN @ ELSE "aborted",
                           !.nevents = n]
      [] e.op = "mutate" ->
           IF e.opt_loan_path = "Some"
           THEN [run EXCEPT !.move_data = gather_assignment(@), !.nevents = n]
           ELSE [run EXCEPT !.nevents = n]
      [] e.op = "decl_without_init" ->
           [run EXCEPT !.move_data = gather_decl(@), !.nevents = n]

(* walk_fn has returned: report_potential_errors, then the result *)
finish(run) ==
    [run EXCEPT !.diags = IF run.move_error_collector > 0
                          THEN Append(@, "move_errors") ELSE @,
                !.pc = "returned"]

----------------------------------------------------------------------------
(* The pass run twice over one function body: both runs get the same       *)
(* events with the same answers of the collaborators.  The first run finds *)
(* an empty session and no flags, the second any content.                  *)

InitialSinks == {<<>>, <<"earlier">>}

Runs == 1..2

InitRerun ==
    /\ \E sink \in InitialSinks, used \in SUBSET Vars :
         reruns = [r \in Runs |-> IF r = 1 THEN new_run(<<>>, {})
                                  ELSE new_run(sink, used)]
    /\ pc = "rerun"
    /\ all_loans = <<>>
    /\ move_data = <<>>
    /\ move_error_collector = 0
    /\ diags = <<>>
    /\ used_mut_nodes = {}
    /\ failed = "none"
    /\ nevents = 0
    /\ last = [op |-> "none"]
    /\ before = [all_loans |-> <<>>, move_data |-> <<>>, move_error_collector |-> 0,
                 diags |-> <<>>, used_mut_nodes |-> {}]
    /\ flushes = 0
    /\ static_walk = NotRunning
    /\ par = NotRunning

(* the visitors of both runs are at the same expression of the body *)
RerunDispatching ==
    \A r \in Runs : reruns[r].pc = "walk" /\ reruns[r].nevents < MaxEvents

(* both visitors call the callback for e *)
rerun_dispatch(e) ==
    /\ reruns' = [r \in Runs |-> delegate(reruns[r], e)]
    /\ UNCHANGED <<fn_run, static_walk, par>>

rerun_consume ==
    /\ RerunDispatching
    /\ \E e \in ConsumeEvents : rerun_dispatch(e)

rerun_matched_pat ==
    /\ RerunDispatching
    /\ \E e \in MatchedPatEvents : rerun_dispatch(e)

rerun_consume_pat ==
    /\ RerunDispatching
    /\ \E e \in ConsumePatEvents : rerun_dispatch(e)

rerun_borrow ==
    /\ RerunDispatching
    /\ \E e \in BorrowCalls : rerun_dispatch(e)

rerun_mutate ==
    /\ RerunDispatching
    /\ \E e \in MutateEvents : rerun_dispatch(e)

rerun_decl_without_init ==
    /\ RerunDispatching
    /\ \E e \in DeclEvents : rerun_dispatch(e)

(* the body is exhausted in both runs *)
rerun_finish ==
    /\ \A r \in Runs : reruns[r].pc = "walk"
    /\ reruns' = [r \in Runs |-> finish(reruns[r])]
    /\ UNCHANGED <<fn_run, static_walk, par>>

NextRerun ==
    \/ rerun_consume
    \/ rerun_matched_pat
    \/ rerun_consume_pat
    \/ rerun_borrow
    \/ rerun_mutate
    \/ rerun_decl_without_init
    \/ rerun_finish

SpecRerun == InitRerun /\ [][NextRerun]_vars

----------------------------------------------------------------------------
(* Two functions analysed at once.  Each analysis has its own              *)
(* GatherLoanCtxt; the used-mutably flags and the diagnostics are the type *)
(* context's and the session's, shared by both.  The events of the two     *)
(* walks interleave in any order.  The loan paths of a function are rooted *)
(* in its own variables, and no variable belongs to both functions.  Next  *)
(* to each analysis runs a copy of it that gets the same events and has    *)
(* flags and diagnostics of its own: the analysis run alone.               *)

Fns == 1..2

(* the variables of function f *)
FnVars(f) == {v \in Vars : v % 2 = f % 2}

FnBorrowCalls ==
    [f \in Fns |->
        {c \in BorrowCalls :
            c.ev.restr.tag = "SafeIf" => c.ev.restr.loan_path.id \in FnVars(f)}]

(* the flags that the callback for e writes in `run` *)
written(run, e) ==
    IF e.op # "borrow" THEN {}
    ELSE LET r == guarantee_valid([all_loans |-> run.all_loans, diags |-> run.diags,
                                   used_mut_nodes |-> run.used_mut_nodes,
                                   failed |-> run.failed],
                                  [borrow_id |-> e.ev.borrow_id, mutbl |-> e.ev.mutbl,
                                   aliasable |-> e.ev.aliasable,
                                   req_kind |-> e.ev.req_kind,
                                   loan_region |-> e.ev.loan_region,
                                   lifetime |-> e.ev.lifetime,
                                   restr |-> e.ev.restr, span |-> run.nevents + 1])
         IN  IF \E i \in 1..Len(r.calls) : r.calls[i] = "mark_loan_path_as_mutated"
             THEN mark_loan_path_as_mutated(e.ev.restr.loan_path, {})
             ELSE {}

(* the context of an analysis, without the shared state *)
own(run) == [run EXCEPT !.diags = <<>>, !.used_mut_nodes = {}]

(* an analysis as it runs: its context and the shared state as it is now *)
sharing(run) == [run EXCEPT !.diags = par.diags, !.used_mut_nodes = par.used_mut_nodes]

InitPar ==
    /\ par = [fns |-> [f \in Fns |-> new_run(<<>>, {})],
              diags |-> <<>>,
              used_mut_nodes |-> {},
              alone |-> [f \in Fns |-> new_run(<<>>, {})],
              writers |-> {}]
    /\ pc = "par"
    /\ all_loans = <<>>
    /\ move_data = <<>>
    /\ move_error_collector = 0
    /\ diags = <<>>
    /\ used_mut_nodes = {}
    /\ failed = "none"
    /\ nevents = 0
    /\ last = [op |-> "none"]
    /\ before = [all_loans |-> <<>>, move_data |-> <<>>, move_error_collector |-> 0,
                 diags |-> <<>>, used_mut_nodes |-> {}]
    /\ flushes = 0
    /\ static_walk = NotRunning
    /\ reruns = NotRunning

(* the two bodies hold MaxEvents events together *)
ParDispatching(f) ==
    /\ par.fns[f].pc = "walk"
    /\ par.fns[1].nevents + par.fns[2].nevents < MaxEvents

(* the visitor of function f calls the callback for e *)
par_dispatch(f, e) ==
    LET r == delegate(sharing(par.fns[f]), e)
    IN  /\ par' = [fns |-> [par.fns EXCEPT ![f] = own(r)],
                   diags |-> r.diags,
                   used_mut_nodes |-> r.used_mut_nodes,
                   alone |-> [par.alone EXCEPT ![f] = delegate(@, e)],
                   writers |-> par.writers \cup
                               {<<f, v>> : v \in written(sharing(par.fns[f]), e)}]
        /\ UNCHANGED <<fn_run, static_walk, reruns>>

par_consume(f) ==
    /\ ParDispatching(f)
    /\ \E e \in ConsumeEvents : par_dispatch(f, e)

par_matched_pat(f) ==
    /\ ParDispatching(f)
    /\ \E e \in MatchedPatEvents : par_dispatch(f, e)

par_consume_pat(f) ==
    /\ ParDispatching(f)
    /\ \E e \in ConsumePatEvents : par_dispatch(f, e)

par_borrow(f) ==
    /\ ParDispatching(f)
    /\ \E e \in FnBorrowCalls[f] : par_dispatch(f, e)

par_mutate(f) ==
    /\ ParDispatching(f)
    /\ \E e \in MutateEvents : par_dispatch(f, e)

par_decl_without_init(f) ==
    /\ ParDispatching(f)
    /\ \E e \in DeclEvents : par_dispatch(f, e)

(* the body of function f is exhausted *)
par_finish(f) ==
    /\ par.fns[f].pc = "walk"
    /\ LET r == finish(sharing(par.fns[f]))
       IN  par' = [par EXCEPT !.fns[f] = own(r),
                              !.diags = r.diags,
                              !.alone[f] = finish(@)]
    /\ UNCHANGED <<fn_run, static_walk, reruns>>

NextPar ==
    \/ \E f \in Fns : par_consume(f)
    \/ \E f \in Fns : par_matched_pat(f)
    \/ \E f \in Fns : par_consume_pat(f)
    \/ \E f \in Fns : par_borrow(f)
    \/ \E f \in Fns : par_mutate(f)
    \/ \E f \in Fns : par_decl_without_init(f)
    \/ \E f \in Fns : par_finish(f)

SpecPar == InitPar /\ [][NextPar]_vars

----------------------------------------------------------------------------
(* Vocabulary of the properties.  In a state where `last` is a borrow, one *)
(* call of guarantee_valid has just returned: `before` is the state the    *)
(* call found, the variables are the state it left.                        *)

BorrowCalled == last.op = "borrow"

IsPrefix(s, t) == Len(s) <= Len(t) /\ SubSeq(t, 1, Len(s)) = s

LoansUnchanged == all_loans = before.all_loans

LoanAppended ==
    Len(all_loans) = Len(before.all_loans) + 1 /\ IsPrefix(before.all_loans, all_loans)

DiagsUnchanged == diags = before.diags

FlagsUnchanged == used_mut_nodes = before.used_mut_nodes

LastLoan == all_loans[Len(all_loans)]

(* what the checks are to decide, stated on the event *)
MutabilityOk(ev) == ~(ev.req_kind = "MutBorrow" /\ ev.mutbl = "McImmutable")

AliasabilityOk(ev) ==
    ~(/\ ev.aliasable \in AliasableStatics \cup {"AliasableOther"}
      /\ ev.req_kind \in {"UniqueImmBorrow", "MutBorrow"})

Comparable(a, b) == is_subscope_of(a, b) \/ is_subscope_of(b, a)

----------------------------------------------------------------------------
(* C1: a borrow whose region is the empty region, whatever the place, the  *)
(* kind and the collaborators' answers, leaves the loan sequence           *)
(* unchanged, emits no diagnostic, raises no internal failure and flags no *)
(* variable as used mutably.                                               *)
C1_EmptyRegionIsNoOp ==
    (BorrowCalled /\ last.ev.loan_region = ReEmpty)
        => /\ LoansUnchanged
           /\ DiagsUnchanged
           /\ failed = "none" /\ pc = "walk"
           /\ FlagsUnchanged

(* a mutable borrow of an immutable, aliasable place with the empty        *)
(* region, handled after a loan has been recorded                          *)
C1_Witness ==
    /\ BorrowCalled
    /\ last.ev.loan_region = ReEmpty
    /\ last.ev.req_kind = "MutBorrow" /\ last.ev.mutbl = "McImmutable"
    /\ last.ev.aliasable = "AliasableOther"
    /\ Len(all_loans) = 1 /\ diags = <<>> /\ used_mut_nodes = {}

(* C2 as stated: a Mutable borrow of an Immutable place produces exactly   *)
(* one diagnostic and no loan, for every region and every answer of the    *)
(* lifetime checker.                                                       *)
C2_AsClaimed ==
    (/\ BorrowCalled
     /\ last.ev.req_kind = "MutBorrow"
     /\ last.ev.mutbl = "McImmutable")
        => /\ Len(diags) = Len(before.diags) + 1
           /\ LoansUnchanged

(* C2, amended: a Mutable borrow of an Immutable place whose region is not *)
(* the empty region produces exactly one diagnostic (the lifetime          *)
(* checker's, or else the mutability error) and no loan.                   *)
C2_MutBorrowOfImmutable ==
    (/\ BorrowCalled
     /\ last.ev.req_kind = "MutBorrow"
     /\ last.ev.mutbl = "McImmutable"
     /\ last.ev.loan_region # ReEmpty)
        => /\ diags = Append(before.diags, IF last.ev.lifetime = "Err"
                                           THEN "lifetime" ELSE "err_mutbl")
           /\ LoansUnchanged

C2_Witness ==
    /\ BorrowCalled
    /\ last.ev.req_kind = "MutBorrow" /\ last.ev.mutbl = "McImmutable"
    /\ last.ev.loan_region = ReScope(1) /\ last.ev.lifetime = "Ok"
    /\ diags = <<"err_mutbl">> /\ all_loans = <<>>

(* the five conditions of C3 *)
C3_Conditions(ev) ==
    /\ ev.loan_region.tag \in {"ReScope", "ReFree"}
    /\ ev.lifetime = "Ok"
    /\ MutabilityOk(ev)
    /\ AliasabilityOk(ev)
    /\ ev.restr.tag = "SafeIf"

C4_Pipeline ==
    <<"guarantee_lifetime", "check_mutability", "check_aliasability", "compute_restrictions",
      "compute_gen_scope", "compute_kill_scope">>

C4_ExpectedChecks(ev) ==
    IF ev.loan_region = ReEmpty THEN <<>>
    ELSE IF ev.lifetime = "Err" THEN SubSeq(C4_Pipeline, 1, 1)
    ELSE IF ~MutabilityOk(ev) THEN SubSeq(C4_Pipeline, 1, 2)
    ELSE IF ~AliasabilityOk(ev) THEN SubSeq(C4_Pipeline, 1, 3)
    ELSE SubSeq(C4_Pipeline, 1, 4)

(* a borrow that failed the lifetime, mutability or aliasability check *)
CheckFailed(ev) ==
    /\ ev.loan_region # ReEmpty
    /\ ev.lifetime = "Err" \/ ~MutabilityOk(ev) \/ ~AliasabilityOk(ev)

(* C4: one call of guarantee_valid appends at most one loan and emits at   *)
(* most one diagnostic; the lifetime, mutability and aliasability checks   *)
(* run in that order, and once one fails no later check, no restriction    *)
(* computation and no loan creation happens in the call.                   *)
C4_OneCheckFailsAtMost ==
    BorrowCalled
        => LET ev == last.ev
               calls == last.calls
           IN  /\ Len(all_loans) <= Len(before.all_loans) + 1
               /\ IsPrefix(before.all_loans, all_loans)
               /\ Len(diags) <= Len(before.diags) + 1
               /\ IsPrefix(before.diags, diags)
               /\ IsPrefix(C4_ExpectedChecks(ev), calls)
               /\ CheckFailed(ev) => /\ calls = C4_ExpectedChecks(ev)
                                     /\ Len(diags) = Len(before.diags) + 1
                                     /\ LoansUnchanged
               /\ ~CheckFailed(ev) => DiagsUnchanged

(* an aliasability failure: both earlier checks ran, nothing ran after *)
C4_Witness ==
    /\ BorrowCalled
    /\ last.calls = <<"guarantee_lifetime", "check_mutability", "check_aliasability">>
    /\ last.ev.req_kind = "MutBorrow"
    /\ diags = <<"lifetime", "aliasability_violation">>
    /\ all_loans = <<>>

C6_GenScopeInsideLoanScope ==
    (BorrowCalled /\ Len(all_loans) > Len(before.all_loans))
        => LET loan == LastLoan
               loan_scope == last.ev.loan_region.scope
               borrow_scope == last.ev.borrow_id
           IN  /\ loan_scope \in Scopes
               /\ is_subscope_of(loan.gen_scope, loan_scope)
               /\ is_subscope_of(borrow_scope, loan_scope) => loan.gen_scope = borrow_scope
               /\ ~is_subscope_of(borrow_scope, loan_scope) => loan.gen_scope = loan_scope

(* a loan whose borrow expression lies outside the region of the loan *)
C6_Witness ==
    /\ BorrowCalled
    /\ Len(all_loans) = 1
    /\ last.ev.borrow_id = 3
    /\ last.ev.loan_region = ReScope(2)
    /\ LastLoan.gen_scope = 2

(* C7: for every loan produced, kill_scope is the smaller of the loan      *)
(* scope and the lexical scope of the variable rooting the path, a         *)
(* subscope of both, and so comparable with the loan scope; when the two   *)
(* scopes are incomparable the assertion fails and no loan is produced.    *)
C7_KillScope ==
    (BorrowCalled /\ C3_Conditions(last.ev))
        => LET loan_scope == last.ev.loan_region.scope
               lexical_scope == lp_kill_scope(last.ev.restr.loan_path)
           IN  IF Comparable(loan_scope, lexical_scope)
               THEN /\ LoanAppended
                    /\ failed = "none"
                    /\ LastLoan.kill_scope \in {loan_scope, lexical_scope}
                    /\ is_subscope_of(LastLoan.kill_scope, loan_scope)
                    /\ is_subscope_of(LastLoan.kill_scope, lexical_scope)
                    /\ Comparable(LastLoan.kill_scope, loan_scope)
               ELSE /\ failed = "assert" /\ pc = "aborted"
                    /\ LoansUnchanged
                    /\ FlagsUnchanged

(* a loan killed at the end of its variable's scope, inside the loan       *)
(* region, followed by a borrow whose two scopes are incomparable          *)
C7_Witness ==
    /\ BorrowCalled
    /\ Len(all_loans) = 1
    /\ all_loans[1].kill_scope = 2 /\ all_loans[1].gen_scope = 1
    /\ failed = "assert"
    /\ last.ev.req_kind = "MutBorrow"
    /\ ~Comparable(last.ev.loan_region.scope, lp_kill_scope(last.ev.restr.loan_path))

(* a failed borrow changes only the diagnostics *)
C8_FailedBorrowChangesNothing ==
    (BorrowCalled /\ CheckFailed(last.ev))
        => /\ LoansUnchanged
           /\ move_data = before.move_data
           /\ move_error_collector = before.move_error_collector
           /\ FlagsUnchanged
           /\ failed = "none" /\ pc = "walk"
           /\ Len(diags) = Len(before.diags) + 1

(* what the next borrow does to the loans, the flags and the run does not  *)
(* depend on the diagnostics emitted so far                                *)
C8_LaterBorrowsIgnoreDiags ==
    Dispatching =>
        \A ev \in BorrowEvents :
            LET b == [borrow_id |-> ev.borrow_id, mutbl |-> ev.mutbl,
                      aliasable |-> ev.aliasable, req_kind |-> ev.req_kind,
                      loan_region |-> ev.loan_region, lifetime |-> ev.lifetime,
                      restr |-> ev.restr, span |-> nevents + 1]
                s == [all_loans |-> all_loans, diags |-> diags,
                      used_mut_nodes |-> used_mut_nodes, failed |-> failed]
                with == guarantee_valid(s, b)
                without == guarantee_valid([s EXCEPT !.diags = <<>>], b)
            IN  /\ with.all_loans = without.all_loans
                /\ with.used_mut_nodes = without.used_mut_nodes
                /\ with.failed = without.failed
                /\ with.calls = without.calls

(* C8: a borrow that fails one of the three checks changes neither the     *)
(* loan sequence nor the move table nor the used-mutably flags and does    *)
(* not stop the pass: the visitor walks on; and since later borrows do not *)
(* depend on the diagnostics, the loans they produce are those produced    *)
(* had the failed borrow not occurred.                                     *)
C8_FailedBorrowIsLocal ==
    /\ C8_FailedBorrowChangesNothing
    /\ (BorrowCalled /\ CheckFailed(last.ev)) => ENABLED walk_on
    /\ C8_LaterBorrowsIgnoreDiags

(* the first borrow failed its mutability check, the second produced loan 0 *)
C8_Witness ==
    /\ BorrowCalled
    /\ nevents = 2
    /\ diags = <<"err_mutbl">>
    /\ Len(all_loans) = 1 /\ LastLoan.span = 2 /\ LastLoan.index = 0

(* C9 as stated: a static-region borrow that passes the three checks and   *)
(* still gets SafeIf from the solver ends in an internal failure that      *)
(* halts the pass.                                                         *)
C9_AsClaimed ==
    (/\ BorrowCalled
     /\ last.ev.loan_region = ReStatic
     /\ last.ev.restr.tag = "SafeIf")
        => failed # "none" /\ pc = "aborted"

(* C9, amended: such a borrow returns silently: no loan, no diagnostic, no *)
(* flag, no internal failure, and the pass goes on.                        *)
C9_StaticBorrowReturns ==
    (/\ BorrowCalled
     /\ last.ev.loan_region = ReStatic
     /\ last.ev.restr.tag = "SafeIf")
        => /\ LoansUnchanged
           /\ DiagsUnchanged
           /\ FlagsUnchanged
           /\ failed = "none" /\ pc = "walk"
           /\ last.calls = SubSeq(C4_Pipeline, 1, 4)

C9_Witness ==
    /\ BorrowCalled
    /\ last.ev.loan_region = ReStatic
    /\ last.ev.restr.tag = "SafeIf"
    /\ last.ev.req_kind = "MutBorrow"
    /\ pc = "walk" /\ failed = "none"
    /\ nevents = 1

(* a borrow of an immutable static item that passes the lifetime check *)
C10_Case(ev) ==
    /\ ev.aliasable \in AliasableStatics
    /\ ev.mutbl = "McImmutable"
    /\ ev.loan_region # ReEmpty
    /\ ev.lifetime = "Ok"
    /\ ev.req_kind \in {"UniqueImmBorrow", "MutBorrow"}

(* C10 as stated: a UniqueImmutable or Mutable borrow of an immutable      *)
(* static item yields no loan and exactly one diagnostic, an               *)
(* aliasability violation.                                                 *)
C10_AsClaimed ==
    (BorrowCalled /\ C10_Case(last.ev))
        => /\ LoansUnchanged
           /\ diags = Append(before.diags, "aliasability_violation")

(* C10, amended: ... exactly one diagnostic: an aliasability violation     *)
(* when the kind is UniqueImmutable, the mutability error when the kind is *)
(* Mutable (the mutability check runs first).                              *)
C10_ImmutableStatic ==
    (BorrowCalled /\ C10_Case(last.ev))
        => /\ LoansUnchanged
           /\ diags = Append(before.diags, IF last.ev.req_kind = "UniqueImmBorrow"
                                           THEN "aliasability_violation"
                                           ELSE "err_mutbl")

C10_Witness ==
    /\ BorrowCalled
    /\ C10_Case(last.ev)
    /\ last.ev.req_kind = "UniqueImmBorrow"
    /\ last.ev.aliasable = "AliasableStatic(InteriorUnsafe)"
    /\ diags = <<"aliasability_violation">>
    /\ all_loans = <<>>

(* the call of guarantee_valid that has just returned went through `name` *)
Called(name) == \E i \in 1..Len(last.calls) : last.calls[i] = name

(* C11: the used-mutably flag set only grows: every step of the pass       *)
(* leaves each flagged variable flagged, so a variable flagged at some     *)
(* point is flagged at every later point; and flagging a variable that is  *)
(* already flagged leaves the set unchanged.                               *)
C11_FlagsOnlyGrow ==
    /\ before.used_mut_nodes \subseteq used_mut_nodes
    /\ (/\ BorrowCalled
        /\ Called("mark_loan_path_as_mutated")
        /\ last.ev.restr.loan_path.id \in before.used_mut_nodes) => FlagsUnchanged
    /\ \A lp \in LoanPaths :
          LET once == mark_loan_path_as_mutated(lp, used_mut_nodes)
          IN  /\ used_mut_nodes \subseteq once
              /\ mark_loan_path_as_mutated(lp, once) = once

(* the second mutable borrow flags another variable than the first, whose  *)
(* flag stays *)
C11_Witness ==
    /\ BorrowCalled
    /\ Called("mark_loan_path_as_mutated")
    /\ before.used_mut_nodes = {1}
    /\ last.ev.restr.loan_path.id = 2
    /\ used_mut_nodes = {1, 2}
    /\ Len(all_loans) = 2

Count(seq, x) == Cardinality({i \in 1..Len(seq) : seq[i] = x})

(* C12: in a run that reaches its end the deferred move errors are flushed *)
(* exactly once, after the last event has been dispatched and before the   *)
(* loans and the move table are returned; during the traversal nothing is  *)
(* flushed.                                                                *)
C12_FlushedOnceAtEnd ==
    /\ pc \in {"walk", "aborted"} => flushes = 0 /\ Count(diags, "move_errors") = 0
    /\ pc \in {"reported", "returned"}
          => /\ flushes = 1
             /\ last.op \in {"report_potential_errors", "return"}
             /\ ~(ENABLED walk_on) /\ ~Dispatching
             /\ Count(diags, "move_errors") = (IF move_error_collector > 0 THEN 1 ELSE 0)
             /\ move_error_collector > 0 => diags[Len(diags)] = "move_errors"
    /\ last.op = "report_potential_errors"
          => /\ pc = "reported"
             /\ all_loans = before.all_loans /\ move_data = before.move_data
    /\ last.op = "return"
          => /\ pc = "returned"
             /\ Snapshot = before

(* a run with two events, one of them an illegal move, has returned: the   *)
(* one deferred error was reported after the diagnostic of the borrow      *)
C12_Witness ==
    /\ pc = "returned"
    /\ nevents = 2
    /\ move_error_collector = 1
    /\ diags = <<"err_mutbl", "move_errors">>
    /\ flushes = 1

(* the callback that has just returned is one of the move-related ones *)
MoveEventCalled ==
    last.op \in {"consume", "consume_pat", "matched_pat", "mutate", "decl_without_init"}

(* the loan that the borrow event ev makes as the n-th event, after k loans *)
C14_LoanOf(ev, k, n) ==
    [index |-> k,
     loan_path |-> ev.restr.loan_path,
     kind |-> ev.req_kind,
     gen_scope |-> compute_gen_scope(ev.borrow_id, ev.loan_region.scope),
     kill_scope |-> compute_kill_scope(ev.loan_region.scope, ev.restr.loan_path),
     span |-> n]

(* C14: borrow events and move-related events do not interact: a consume,  *)
(* consume_pat, matched_pat, mutate or decl_without_init leaves the loans  *)
(* and the used-mutably flags unchanged; a borrow leaves the move table    *)
(* and the deferred move errors unchanged; and the loan a borrow appends   *)
(* is fixed by the borrow event and its position alone, whatever the move  *)
(* table holds.                                                            *)
C14_BorrowsAndMovesApart ==
    /\ MoveEventCalled => LoansUnchanged /\ FlagsUnchanged
    /\ BorrowCalled => /\ move_data = before.move_data
                       /\ move_error_collector = before.move_error_collector
    /\ (BorrowCalled /\ ~LoansUnchanged)
          => all_loans = Append(before.all_loans,
                                C14_LoanOf(last.ev, Len(before.all_loans), nevents))

(* a place is moved, then borrowed: the move is in the table, the loan is  *)
(* recorded *)
C14_Witness ==
    /\ BorrowCalled
    /\ move_data = <<"gather_move_from_expr">>
    /\ Len(all_loans) = 1
    /\ LastLoan.kind = "MutBorrow"
    /\ LastLoan.index = 0 /\ LastLoan.span = 2

(* the (cause, kind) pairs on which C16 has the aliasability check fail *)
C16_Fails(aliasable, req_kind) ==
    /\ aliasable \in AliasableStatics \cup {"AliasableOther"}
    /\ req_kind \in {"UniqueImmBorrow", "MutBorrow"}

(* C16: the aliasability check fails, emitting exactly one                 *)
(* aliasability-violation diagnostic, iff the cause is AliasableStatic or  *)
(* AliasableOther and the kind is UniqueImmutable or Mutable; for cause    *)
(* None, for AliasableStaticMut with any kind and for any cause with kind  *)
(* Immutable it succeeds and emits nothing.  Stated of the function on     *)
(* every pair, and of every call of guarantee_valid that reached it.       *)
C16_AliasabilityTable ==
    /\ \A aliasable \in Aliasabilities, req_kind \in BorrowKinds :
          check_aliasability(diags, aliasable, req_kind) =
              IF C16_Fails(aliasable, req_kind)
              THEN [res |-> "Err", diags |-> Append(diags, "aliasability_violation")]
              ELSE [res |-> "Ok", diags |-> diags]
    /\ (BorrowCalled /\ Called("check_aliasability"))
          => IF C16_Fails(last.ev.aliasable, last.ev.req_kind)
             THEN /\ diags = Append(before.diags, "aliasability_violation")
                  /\ ~Called("compute_restrictions")
                  /\ LoansUnchanged
             ELSE /\ DiagsUnchanged
                  /\ Called("compute_restrictions")

(* a mutable borrow of a static mut passes the check and makes a loan *)
C16_Witness ==
    /\ BorrowCalled
    /\ last.ev.aliasable = "AliasableStaticMut"
    /\ last.ev.req_kind = "MutBorrow"
    /\ Called("check_aliasability") /\ Called("push")
    /\ diags = <<>>
    /\ Len(all_loans) = 1

(* the regions that must not reach guarantee_valid's scope resolution *)
C18_Case(ev) == ev.loan_region.tag \in {"ReLateBound", "ReEarlyBound", "ReInfer"}

(* the three checks succeed and the solver returns SafeIf *)
C18_Reaches(ev) ==
    /\ ev.lifetime = "Ok"
    /\ MutabilityOk(ev)
    /\ AliasabilityOk(ev)
    /\ ev.restr.tag = "SafeIf"

(* C18: for a late-bound, early-bound or inferred region the internal      *)
(* failure (span_bug) is raised exactly when the three checks succeed and  *)
(* the solver returns SafeIf; it appends no loan, flags no variable and no *)
(* later event is processed.  When a check fails or the solver returns     *)
(* Safe the same region causes no failure.  The empty region never reaches *)
(* scope resolution, and no other region raises the failure.               *)
C18_InvalidRegion ==
    /\ (BorrowCalled /\ C18_Case(last.ev))
          => IF C18_Reaches(last.ev)
             THEN /\ failed = "span_bug" /\ pc = "aborted"
                  /\ LoansUnchanged /\ FlagsUnchanged /\ DiagsUnchanged
                  /\ ~Called("compute_gen_scope")
                  /\ ~(ENABLED Next)
             ELSE /\ failed = "none" /\ pc = "walk"
                  /\ LoansUnchanged /\ FlagsUnchanged
    /\ (BorrowCalled /\ last.ev.loan_region = ReEmpty)
          => last.calls = <<>> /\ failed = "none"
    /\ failed = "span_bug" => BorrowCalled /\ C18_Case(last.ev)

(* after one loan, a mutable borrow with an inferred region ends the pass *)
C18_Witness ==
    /\ BorrowCalled
    /\ last.ev.loan_region = ReInfer
    /\ last.ev.req_kind = "MutBorrow"
    /\ failed = "span_bug"
    /\ Len(all_loans) = 1 /\ nevents = 2

(* exactly one call of the move gatherer, to `handler`, and nothing else:  *)
(* the call either entered the move table or was kept as a deferred error  *)
C20_OneCall(handler) ==
    /\ \/ /\ move_data = Append(before.move_data, handler)
          /\ move_error_collector = before.move_error_collector
       \/ /\ move_data = before.move_data
          /\ move_error_collector = before.move_error_collector + 1
          /\ last.op \in {"consume", "consume_pat"} /\ last.illegal
    /\ LoansUnchanged /\ DiagsUnchanged /\ FlagsUnchanged
    /\ failed = "none" /\ pc = "walk"

(* the event changed no state at all *)
C20_NoCall == Snapshot = before /\ failed = "none" /\ pc = "walk"

(* C20: every non-borrow event results in at most one call of the move     *)
(* gatherer, and in exactly one except for consume and consume_pat with    *)
(* mode Copy, matched_pat on a place that is not a variant projection and  *)
(* mutate on a place without loan path, which change no state: consume     *)
(* with Move goes to gather_move_from_expr, consume_pat with Move to       *)
(* gather_move_from_pat, matched_pat on a variant projection to            *)
(* gather_match_variant, mutate with a path to gather_assignment and       *)
(* decl_without_init always to gather_decl.                                *)
C20_MoveDispatch ==
    /\ last.op = "consume"
          => IF last.mode = "Move" THEN C20_OneCall("gather_move_from_expr") ELSE C20_NoCall
    /\ last.op = "consume_pat"
          => IF last.mode = "Move" THEN C20_OneCall("gather_move_from_pat") ELSE C20_NoCall
    /\ last.op = "matched_pat"
          => IF last.cat = "cat_downcast" THEN C20_OneCall("gather_match_variant")
             ELSE C20_NoCall
    /\ last.op = "mutate"
          => IF last.opt_loan_path = "Some" THEN C20_OneCall("gather_assignment")
             ELSE C20_NoCall
    /\ last.op = "decl_without_init" => C20_OneCall("gather_decl")

(* a declaration, then a pattern binding by copy that changes nothing *)
C20_Witness ==
    /\ last.op = "consume_pat" /\ last.mode = "Copy"
    /\ move_data = <<"gather_decl">>
    /\ before.move_data = <<"gather_decl">>
    /\ nevents = 2

(* some link on the way from the loan path to its root is an extension of *)
(* category Immutable *)
C17_ThroughImmutable(lp) ==
    \E i \in 1..Len(lp.links) : lp.links[i] = "LpExtend(McImmutable)"

(* C17: a borrow flags a variable as used mutably only when its kind is    *)
(* Mutable and the same call appends a loan; it then flags exactly the     *)
(* root variable of the loan path if no extension between the path and its *)
(* root is Immutable (variant projections, inherited and declared          *)
(* extensions are passed through) and nothing if one is.  Immutable and    *)
(* UniqueImmutable borrows and Mutable borrows that make no loan flag      *)
(* nothing.                                                                *)
C17_MutableLoansFlagRoot ==
    BorrowCalled
        => LET ev == last.ev
               lp == ev.restr.loan_path
           IN  IF /\ ev.req_kind = "MutBorrow"
                  /\ LoanAppended
                  /\ ~C17_ThroughImmutable(lp)
               THEN used_mut_nodes = before.used_mut_nodes \cup {lp.id}
               ELSE FlagsUnchanged

(* a mutable loan of a field of a variant of variable 2: the root is       *)
(* flagged through the declared extension and the variant projection       *)
C17_Witness ==
    /\ BorrowCalled
    /\ last.ev.req_kind = "MutBorrow"
    /\ last.ev.restr.loan_path.links = <<"LpExtend(McDeclared)", "LpDowncast">>
    /\ last.ev.restr.loan_path.id = 2
    /\ before.used_mut_nodes = {1}
    /\ used_mut_nodes = {1, 2}
    /\ Len(all_loans) = 1

(* expression e of the initializer is a reference-taking expression that  *)
(* violates aliasability                                                   *)
C19_Violating(e) ==
    LET node == static_walk.expr.node[e]
    IN  /\ node.tag = "ExprAddrOf"
        /\ node.mutbl = "MutMutable"
        /\ node.aliasable \in AliasableStatics \cup {"AliasableOther"}

(* e lies inside a violating reference-taking expression *)
RECURSIVE C19_Nested(_)
C19_Nested(e) ==
    LET up == static_walk.expr.parent[e]
    IN  IF up = 0 THEN FALSE
        ELSE C19_Violating(up) \/ C19_Nested(up)

(* C19: in the static-initializer walk only the aliasability check emits   *)
(* diagnostics and no loan is recorded; a reference-taking expression that *)
(* fails the check gets exactly one diagnostic and none of its             *)
(* sub-expressions is visited; when it passes, or the expression takes no  *)
(* reference, every sub-expression is visited.  At the end the number of   *)
(* diagnostics is the number of violating reference expressions that are   *)
(* not nested inside another violating one.                                *)
C19_StaticWalk ==
    LET exprs == 1..Len(static_walk.expr.parent)
        visited == static_walk.visited
        reached == visited \cup {static_walk.todo[i] : i \in 1..Len(static_walk.todo)}
    IN  /\ all_loans = <<>> /\ used_mut_nodes = {} /\ failed = "none"
        /\ \A i \in 1..Len(diags) : diags[i] = "aliasability_violation"
        /\ Len(diags) = Cardinality({e \in visited : C19_Violating(e)})
        /\ \A e \in reached : ~C19_Nested(e)
        /\ \A e \in visited :
              ~C19_Violating(e) => SubExprs(static_walk.expr.parent, e) \subseteq reached
        /\ static_walk.todo = <<>>
              => /\ visited = {e \in exprs : ~C19_Nested(e)}
                 /\ Len(diags) =
                      Cardinality({e \in exprs : C19_Violating(e) /\ ~C19_Nested(e)})

(* the walk of an initializer with a violating reference inside another    *)
(* one and an expression next to them is over: one diagnostic, the inner   *)
(* reference and its base were not visited                                 *)
C19_Witness ==
    /\ static_walk.todo = <<>>
    /\ Len(static_walk.expr.parent) = 5
    /\ static_walk.visited = {1, 2, 5}
    /\ C19_Violating(2) /\ C19_Violating(3)
    /\ diags = <<"aliasability_violation">>

(* C15: two runs of the pass over the same events with the same answers   *)
(* of the collaborators have, at every point, identical loan sequences and *)
(* identical move tables and deferred move errors, and end alike, whatever *)
(* the used-mutably flags and the diagnostics held when the second run     *)
(* began: the pass writes that state and never reads it.                   *)
C15_SameLoansAndMoves ==
    /\ reruns[1].all_loans = reruns[2].all_loans
    /\ reruns[1].move_data = reruns[2].move_data
    /\ reruns[1].move_error_collector = reruns[2].move_error_collector
    /\ reruns[1].failed = reruns[2].failed
    /\ reruns[1].pc = reruns[2].pc

(* both runs have returned two loans; the second run began with a flag and *)
(* a diagnostic the first did not have, and the runs wrote to both         *)
C15_Witness ==
    /\ reruns[1].pc = "returned"
    /\ Len(reruns[1].all_loans) = 2
    /\ reruns[1].used_mut_nodes = {1}
    /\ reruns[2].used_mut_nodes = {1, 2}
    /\ reruns[1].diags = <<>>
    /\ reruns[2].diags = <<"earlier">>

(* C13: when two functions with disjoint variables are analysed with      *)
(* their events interleaved in any order, no variable has its flag written *)
(* by both analyses, the used-mutably flag set is the union of the sets    *)
(* the analyses produce alone, and each analysis has the loan sequence     *)
(* (and the move table, and the end) it has alone.                         *)
C13_IndependentFunctions ==
    /\ \A v \in Vars : Cardinality({f \in Fns : <<f, v>> \in par.writers}) <= 1
    /\ par.used_mut_nodes = UNION {par.alone[f].used_mut_nodes : f \in Fns}
    /\ \A f \in Fns :
          /\ par.fns[f].all_loans = par.alone[f].all_loans
          /\ par.fns[f].move_data = par.alone[f].move_data
          /\ par.fns[f].failed = par.alone[f].failed
          /\ par.fns[f].pc = par.alone[f].pc

(* function 2 made a mutable loan, then function 1: each wrote the flag of *)
(* its own variable, each has its loan 0 *)
C13_Witness ==
    /\ par.writers = {<<1, 1>>, <<2, 2>>}
    /\ par.used_mut_nodes = {1, 2}
    /\ par.alone[1].used_mut_nodes = {1}
    /\ par.alone[2].used_mut_nodes = {2}
    /\ \A f \in Fns : Len(par.fns[f].all_loans) = 1 /\ par.fns[f].pc = "returned"

----------------------------------------------------------------------------
====
